---- MODULE Spec2Model ----
(***************************************************************************)
(* The jGnash native launcher (rust-launcher/src/main.rs).                 *)
(*                                                                         *)
(* The source holds two cfg(target_family) variants of launch_jgnash.  The *)
(* model runs one launcher process per build, both against the same        *)
(* stubbed environment: the answer of java_locator::locate_java_home, the  *)
(* answer of env::current_exe and whether the OS accepts the spawn.        *)
(*                                                                         *)
(* Strings and paths are sequences of one-character strings, so that       *)
(* String::add, PathBuf::pop and OsStr::to_str are computed on characters. *)
(***************************************************************************)
EXTENDS Naturals, Sequences, FiniteSets

\* ------------------------------------------------------------------ bounds

\* Generated current-executable paths have 1..MaxDepth segments below the root.
MaxDepth == 2

\* The child's exit status is drawn from 0..MaxExitStatus.
MaxExitStatus == 1

\* ------------------------------------------------------- builds, characters

\* #[cfg(target_family = "windows")] and #[cfg(target_family = "unix")]
Builds == {"windows", "unix"}

\* A byte (unix) or code unit (windows, an unpaired surrogate) of an OsString
\* that is not valid Unicode: OsStr::to_str answers None when one is present.
BadByte == "<FF>"

\* The path separators std::path recognises on each target family.
Seps(b) == IF b = "windows" THEN {"/", "\\"} ELSE {"/"}

\* The ASCII letters that begin a path of the input set: the candidates for
\* the drive letter of a windows disk prefix (any ASCII letter in std).
AsciiAlpha == {"C", "a", "l"}

\* ---------------------------------------------------------- string literals

\* "\\bin\\javaw.exe"  (windows variant)
WIN_JAVA_SUFFIX == <<"\\", "b", "i", "n", "\\", "j", "a", "v", "a", "w", ".", "e", "x", "e">>

\* "\\bin\\javaw"  (unix variant)
UNIX_JAVA_SUFFIX == <<"\\", "b", "i", "n", "\\", "j", "a", "v", "a", "w">>

\* "\\lib\\*"
LIB_SUFFIX == <<"\\", "l", "i", "b", "\\", "*">>

\* "-classpath"
ARG_CLASSPATH == <<"-", "c", "l", "a", "s", "s", "p", "a", "t", "h">>

\* "jGnash"
ARG_MAIN_CLASS == <<"j", "G", "n", "a", "s", "h">>

\* The panic message of Option::unwrap on None.
UnwrapNoneMsg == "called Option::unwrap() on a None value"

\* The message given to Result::expect after spawn.
ExpectMsg == "command failed to start"

ErrorDialog_Info ==
    [title |-> "Error",
     body  |-> "Unable to locate a valid Java installation.\n\nPlease download a JVM from https://adoptopenjdk.net.",
     icon  |-> "Info"]

\* The arguments of msgbox::create in main.
ErrorDialog ==
    [title |-> "Error",
     body  |-> "Unable to locate a valid Java installation.\n\nPlease download a JVM from https://adoptopenjdk.net.",
     icon  |-> "Error"]

\* ------------------------------------------------------------- Result values

Pending == [tag |-> "pending", val |-> <<>>]
Ok(v)   == [tag |-> "Ok", val |-> v]
Err     == [tag |-> "Err", val |-> <<>>]

\* ------------------------------------------------------ the stubbed inputs

\* "/usr/lib/jvm/default"
HomeUsrLibJvmDefault == <<"/", "u", "s", "r", "/", "l", "i", "b", "/", "j", "v", "m", "/", "d", "e", "f", "a", "u", "l", "t">>

\* "C:\\jdk"
HomeCJdk == <<"C", ":", "\\", "j", "d", "k">>

\* "/j/"  (a home with a trailing separator)
HomeTrailingSep == <<"/", "j", "/">>

\* Runtime homes the locator may report (a String: always valid Unicode).
Homes == {HomeUsrLibJvmDefault, HomeCJdk, HomeTrailingSep}

\* "/opt/app/launcher"
ExeOptApp == <<"/", "o", "p", "t", "/", "a", "p", "p", "/", "l", "a", "u", "n", "c", "h", "e", "r">>

\* "/opt/myapp/bin/launcher"
ExeOptMyapp == <<"/", "o", "p", "t", "/", "m", "y", "a", "p", "p", "/", "b", "i", "n", "/", "l", "a", "u", "n", "c", "h", "e", "r">>

\* "C:\\app\\launcher.exe"
ExeCApp == <<"C", ":", "\\", "a", "p", "p", "\\", "l", "a", "u", "n", "c", "h", "e", "r", ".", "e", "x", "e">>

\* File and directory names of the generated paths: a plain name, a name that
\* is not valid Unicode, and a name holding a backslash (one segment on unix,
\* two on windows).
SegNames == {<<"a">>, <<BadByte>>, <<"a", "\\", "l">>}

\* Roots of the generated paths, each with the separator that joins below it.
Roots == {[root |-> <<"/">>, sep |-> "/"], [root |-> <<"C", ":", "\\">>, sep |-> "\\"]}

RECURSIVE Join(_, _, _)
\* root, then the segments joined by sep.
Join(root, sep, segs) ==
    IF segs = <<>> THEN root
    ELSE IF Len(segs) = 1 THEN root \o segs[1]
    ELSE Join(root \o segs[1] \o <<sep>>, sep, Tail(segs))

\* Absolute paths of 1..MaxDepth segments.
GeneratedExePaths ==
    { Join(r.root, r.sep, segs) :
        r \in Roots,
        segs \in UNION { [1..n -> SegNames] : n \in 1..MaxDepth } }

\* What env::current_exe may answer with Ok.  Both builds are run on every
\* path, unix-rooted and drive-rooted alike; std::path accepts either.
ExePaths == GeneratedExePaths \cup {ExeOptApp, ExeOptMyapp, ExeCApp}

\* ------------------------------------------------- std::path, on characters

\* Length of a windows disk prefix ("C:"); unix paths have no prefix.  The
\* inputs hold no UNC, verbatim or device prefix.
PrefixLen(b, p) ==
    IF b = "windows" /\ Len(p) >= 2 /\ p[1] \in AsciiAlpha /\ p[2] = ":" THEN 2 ELSE 0

\* Whether a root separator follows the prefix.
HasRoot(b, p) ==
    Len(p) > PrefixLen(b, p) /\ p[PrefixLen(b, p) + 1] \in Seps(b)

\* Length of the prefix and root: the part Path::parent never cuts into.
BodyStart(b, p) == PrefixLen(b, p) + (IF HasRoot(b, p) THEN 1 ELSE 0)

RECURSIVE TrimSeps(_, _, _)
\* The length left of p[1..n] once its trailing separators are dropped,
\* never below the prefix and root.
TrimSeps(b, p, n) ==
    IF n > BodyStart(b, p) /\ p[n] \in Seps(b) THEN TrimSeps(b, p, n - 1) ELSE n

RECURSIVE SkipSegment(_, _, _)
\* The length left of p[1..n] once the separator-free run at its end is dropped.
SkipSegment(b, p, n) ==
    IF n > BodyStart(b, p) /\ p[n] \notin Seps(b) THEN SkipSegment(b, p, n - 1) ELSE n

PathBufPop_Keep(b, p) == p

\* PathBuf::pop: truncate to Path::parent, the path without its last
\* component; a path that has no parent (only prefix and root) is left as is.
PathBufPop(b, p) ==
    LET end == TrimSeps(b, p, Len(p))
    IN  IF end <= BodyStart(b, p) THEN p
        ELSE SubSeq(p, 1, TrimSeps(b, p, SkipSegment(b, p, end)))

\* OsStr::to_str: Some exactly when every character is valid Unicode.
ToStrIsSome(p) == \A i \in 1..Len(p) : p[i] # BadByte

\* ----------------------------------------------------- the program's functions

GetExecutionPath_Dot(b, current_exe) ==
    IF current_exe.tag = "Ok" THEN PathBufPop(b, current_exe.val) ELSE <<".">>

\* get_execution_path: the current executable's path without its file name,
\* or PathBuf::new() when env::current_exe fails.
GetExecutionPath(b, current_exe) ==
    IF current_exe.tag = "Ok" THEN PathBufPop(b, current_exe.val) ELSE <<>>

JavaExe_Joined(b, s) ==
    IF s # <<>> /\ s[Len(s)] \in Seps(b)
    THEN s \o Tail(IF b = "windows" THEN WIN_JAVA_SUFFIX ELSE UNIX_JAVA_SUFFIX)
    ELSE s \o (IF b = "windows" THEN WIN_JAVA_SUFFIX ELSE UNIX_JAVA_SUFFIX)

\* let java_exe = s.add(...), per variant.
JavaExe(b, s) ==
    s \o (IF b = "windows" THEN WIN_JAVA_SUFFIX ELSE UNIX_JAVA_SUFFIX)

ClassPath_UnixSlash(b, dir) ==
    IF b = "windows" THEN dir \o LIB_SUFFIX ELSE dir \o <<"/", "l", "i", "b", "/", "*">>

\* let class_path = <install directory>.to_string().add("\\lib\\*"), the same
\* literal in both variants.
ClassPath(b, dir) == dir \o LIB_SUFFIX

SpawnArgs_Jar(class_path) ==
    <<ARG_CLASSPATH, class_path, <<"-", "j", "a", "r">>, ARG_MAIN_CLASS>>

\* .arg("-classpath").arg(&class_path).arg("jGnash")
SpawnArgs(class_path) == <<ARG_CLASSPATH, class_path, ARG_MAIN_CLASS>>

\* ------------------------------------------------------------------- state

VARIABLES
    locate_result,   \* stub: what locate_java_home answers
    current_exe,     \* stub: what env::current_exe answers
    spawn_accepted,  \* stub: whether the OS accepts the spawn
    pc,              \* per build: the launcher's position
    java_home,       \* per build: main's java_home
    java_exe,        \* per build: launch_jgnash's java_exe
    exec_path,       \* per build: what get_execution_path returned
    class_path,      \* per build: launch_jgnash's class_path
    spawn_result,    \* per build: the Result of Command::spawn
    child_handle,    \* per build: whether the launcher holds a Child value
    spawns,          \* per build: the spawn calls issued, in order
    dialogs,         \* per build: the dialogs displayed, in order
    panic_msg,       \* per build: the message the launcher panicked with
    child,           \* per build: the child process
    child_status,    \* per build: the child's exit status, once exited
    trace            \* per build: the calls made, in order

vars ==
    <<locate_result, current_exe, spawn_accepted, pc, java_home, java_exe, exec_path,
      class_path, spawn_result, child_handle, spawns, dialogs, panic_msg, child,
      child_status, trace>>

stubs == <<locate_result, current_exe, spawn_accepted>>

Init ==
    /\ locate_result \in {Err} \cup {Ok(h) : h \in Homes}
    /\ current_exe \in {Err} \cup {Ok(e) : e \in ExePaths}
    /\ spawn_accepted \in BOOLEAN
    /\ pc = [b \in Builds |-> "main"]
    /\ java_home = [b \in Builds |-> Pending]
    /\ java_exe = [b \in Builds |-> <<>>]
    /\ exec_path = [b \in Builds |-> <<>>]
    /\ class_path = [b \in Builds |-> <<>>]
    /\ spawn_result = [b \in Builds |-> "pending"]
    /\ child_handle = [b \in Builds |-> FALSE]
    /\ spawns = [b \in Builds |-> <<>>]
    /\ dialogs = [b \in Builds |-> <<>>]
    /\ panic_msg = [b \in Builds |-> ""]
    /\ child = [b \in Builds |-> "none"]
    /\ child_status = [b \in Builds |-> 0]
    /\ trace = [b \in Builds |-> <<>>]

\* ----------------------------------------------------------------- actions

\* main: let java_home = java_locator::locate_java_home();
Main_Locate(b) ==
    /\ pc[b] = "main"
    /\ java_home' = [java_home EXCEPT ![b] = locate_result]
    /\ trace' = [trace EXCEPT ![b] = Append(@, "locate_java_home")]
    /\ pc' = [pc EXCEPT ![b] = "match"]
    /\ UNCHANGED <<stubs, java_exe, exec_path, class_path, spawn_result, child_handle,
                   spawns, dialogs, panic_msg, child, child_status>>

\* main, Err(_e) arm: msgbox::create(...) displays the modal dialog and
\* returns once it is dismissed; main then ends.
Main_Err(b) ==
    /\ pc[b] = "match"
    /\ java_home[b].tag = "Err"
    /\ dialogs' = [dialogs EXCEPT ![b] = Append(@, ErrorDialog)]
    /\ trace' = [trace EXCEPT ![b] = Append(@, "msgbox::create")]
    /\ pc' = [pc EXCEPT ![b] = "main_end"]
    /\ UNCHANGED <<stubs, java_home, java_exe, exec_path, class_path, spawn_result,
                   child_handle, spawns, panic_msg, child, child_status>>

\* main, Ok(s) arm: enter launch_jgnash(s) and compute java_exe.
Launch_JavaExe(b) ==
    /\ pc[b] = "match"
    /\ java_home[b].tag = "Ok"
    /\ java_exe' = [java_exe EXCEPT ![b] = JavaExe(b, java_home[b].val)]
    /\ trace' = [trace EXCEPT ![b] = Append(@, "launch_jgnash")]
    /\ pc' = [pc EXCEPT ![b] = "class_path"]
    /\ UNCHANGED <<stubs, java_home, exec_path, class_path, spawn_result, child_handle,
                   spawns, dialogs, panic_msg, child, child_status>>

\* launch_jgnash: let class_path = get_execution_path().as_os_str().to_str()
\* .unwrap().to_string().add("\\lib\\*"); unwrap panics when to_str is None.
Launch_ClassPath(b) ==
    /\ pc[b] = "class_path"
    /\ LET dir == GetExecutionPath(b, current_exe)
       IN  /\ exec_path' = [exec_path EXCEPT ![b] = dir]
           /\ IF ToStrIsSome(dir)
              THEN /\ class_path' = [class_path EXCEPT ![b] = ClassPath(b, dir)]
                   /\ pc' = [pc EXCEPT ![b] = "spawn"]
                   /\ UNCHANGED panic_msg
              ELSE /\ pc' = [pc EXCEPT ![b] = "panicked"]
                   /\ panic_msg' = [panic_msg EXCEPT ![b] = UnwrapNoneMsg]
                   /\ UNCHANGED class_path
    /\ trace' = [trace EXCEPT ![b] = Append(@, "current_exe")]
    /\ UNCHANGED <<stubs, java_home, java_exe, spawn_result, child_handle, spawns,
                   dialogs, child, child_status>>

\* launch_jgnash: Command::new(&java_exe).arg(..).arg(..).arg(..).spawn():
\* Ok(Child) with the child started, or Err.
Launch_Spawn(b) ==
    /\ pc[b] = "spawn"
    /\ spawns' = [spawns EXCEPT ![b] =
                     Append(@, [program |-> java_exe[b], args |-> SpawnArgs(class_path[b])])]
    /\ trace' = [trace EXCEPT ![b] = Append(@, "spawn")]
    /\ IF spawn_accepted
       THEN /\ spawn_result' = [spawn_result EXCEPT ![b] = "Ok"]
            /\ child_handle' = [child_handle EXCEPT ![b] = TRUE]
            /\ child' = [child EXCEPT ![b] = "running"]
       ELSE /\ spawn_result' = [spawn_result EXCEPT ![b] = "Err"]
            /\ UNCHANGED <<child_handle, child>>
    /\ pc' = [pc EXCEPT ![b] = "expect"]
    /\ UNCHANGED <<stubs, java_home, java_exe, exec_path, class_path, dialogs,
                   panic_msg, child_status>>

\* .expect("command failed to start") on Ok: the Child is a temporary of the
\* statement and is dropped at its end (dropping neither waits nor kills);
\* launch_jgnash returns to main.
Launch_ExpectOk(b) ==
    /\ pc[b] = "expect"
    /\ spawn_result[b] = "Ok"
    /\ child_handle' = [child_handle EXCEPT ![b] = FALSE]
    /\ pc' = [pc EXCEPT ![b] = "main_end"]
    /\ UNCHANGED <<stubs, java_home, java_exe, exec_path, class_path, spawn_result,
                   spawns, dialogs, panic_msg, child, child_status, trace>>

Launch_ExpectErr_Dialog(b) ==
    /\ pc[b] = "expect"
    /\ spawn_result[b] = "Err"
    /\ dialogs' = [dialogs EXCEPT ![b] = Append(@, ErrorDialog)]
    /\ trace' = [trace EXCEPT ![b] = Append(@, "msgbox::create")]
    /\ pc' = [pc EXCEPT ![b] = "main_end"]
    /\ UNCHANGED <<stubs, java_home, java_exe, exec_path, class_path, spawn_result,
                   child_handle, spawns, panic_msg, child, child_status>>

Launch_ExpectErr_Retry(b) ==
    /\ pc[b] = "expect"
    /\ spawn_result[b] = "Err"
    /\ IF Len(spawns[b]) < 2
       THEN /\ pc' = [pc EXCEPT ![b] = "spawn"]
            /\ UNCHANGED panic_msg
       ELSE /\ pc' = [pc EXCEPT ![b] = "panicked"]
            /\ panic_msg' = [panic_msg EXCEPT ![b] = ExpectMsg]
    /\ UNCHANGED <<stubs, java_home, java_exe, exec_path, class_path, spawn_result,
                   child_handle, spawns, dialogs, child, child_status, trace>>

\* .expect("command failed to start") on Err: panic with that message.
Launch_ExpectErr(b) ==
    /\ pc[b] = "expect"
    /\ spawn_result[b] = "Err"
    /\ pc' = [pc EXCEPT ![b] = "panicked"]
    /\ panic_msg' = [panic_msg EXCEPT ![b] = ExpectMsg]
    /\ UNCHANGED <<stubs, java_home, java_exe, exec_path, class_path, spawn_result,
                   child_handle, spawns, dialogs, child, child_status, trace>>

Main_Return_WaitChild(b) ==
    /\ pc[b] = "main_end"
    /\ child[b] # "running"
    /\ pc' = [pc EXCEPT ![b] = "done"]
    /\ UNCHANGED <<stubs, java_home, java_exe, exec_path, class_path, spawn_result,
                   child_handle, spawns, dialogs, panic_msg, child, child_status, trace>>

\* main returns: the launcher process ends, whatever the child is doing.
Main_Return(b) ==
    /\ pc[b] = "main_end"
    /\ pc' = [pc EXCEPT ![b] = "done"]
    /\ UNCHANGED <<stubs, java_home, java_exe, exec_path, class_path, spawn_result,
                   child_handle, spawns, dialogs, panic_msg, child, child_status, trace>>

\* The spawned Java process ends on its own, with some exit status.
Child_Exit(b) ==
    /\ child[b] = "running"
    /\ \E st \in 0..MaxExitStatus :
          child_status' = [child_status EXCEPT ![b] = st]
    /\ child' = [child EXCEPT ![b] = "exited"]
    /\ UNCHANGED <<stubs, pc, java_home, java_exe, exec_path, class_path, spawn_result,
                   child_handle, spawns, dialogs, panic_msg, trace>>

\* One step of the launcher process of build b.
LauncherStep(b) ==
    \/ Main_Locate(b)
    \/ Main_Err(b)
    \/ Launch_JavaExe(b)
    \/ Launch_ClassPath(b)
    \/ Launch_Spawn(b)
    \/ Launch_ExpectOk(b)
    \/ Launch_ExpectErr(b)
    \/ Main_Return(b)

Next == \E b \in Builds : LauncherStep(b) \/ Child_Exit(b)

Spec == Init /\ [][Next]_vars

\* The launcher is a running sequential process: it takes its next step.  The
\* child is under no obligation to ever exit.
FairSpec == Spec /\ \A b \in Builds : WF_vars(LauncherStep(b))

\* ------------------------------------------------------- property helpers

\* How many times call c occurs in a build's trace.
Count(seq, c) == Cardinality({i \in 1..Len(seq) : seq[i] = c})

IsPrefix(s, t) == Len(s) <= Len(t) /\ SubSeq(t, 1, Len(s)) = s

\* The launcher process of build b has ended (returned from main, or panicked).
Terminated(b) == pc[b] \in {"done", "panicked"}

\* The launcher of build b is past the class_path statement of launch_jgnash.
PastClassPath(b) == "current_exe" \in {trace[b][i] : i \in 1..Len(trace[b])}

\* d consists of a root only: separators, after a windows drive prefix if any.
IsRootOnly(b, d) ==
    \A i \in 1..Len(d) :
        d[i] \in Seps(b) \/ (b = "windows" /\ i <= 2 /\ Len(d) >= 2 /\ d[2] = ":")

\* e is d, then a run of separators, then one non-empty separator-free
\* segment; d ends in a separator only when it is a bare root.
IsLastSegmentRemoved(b, d, e) ==
    \E k \in 0..Len(e) : \E j \in k..Len(e) :
        /\ d = SubSeq(e, 1, k)
        /\ j < Len(e)
        /\ \A i \in (k + 1)..j : e[i] \in Seps(b)
        /\ \A i \in (j + 1)..Len(e) : e[i] \notin Seps(b)
        /\ (j > k \/ k = 0 \/ d[k] \in Seps(b))
        /\ (k > 0 /\ d[k] \in Seps(b) => IsRootOnly(b, d))

\* ------------------------------------------------------------------ claims

\* C1: when the Runtime Locator reports failure, main shows the error dialog
\* exactly once, with title "Error", the fixed body naming
\* https://adoptopenjdk.net and the error icon; launch_jgnash is never entered
\* and no spawn is attempted before the program ends.
C1_LocatorFailureShowsDialogOnce ==
    \A b \in Builds :
        java_home[b].tag = "Err" =>
            /\ spawns[b] = <<>>
            /\ Count(trace[b], "launch_jgnash") = 0
            /\ Count(trace[b], "spawn") = 0
            /\ child[b] = "none"
            /\ pc[b] \in {"match", "main_end", "done"}
            /\ pc[b] = "match" => dialogs[b] = <<>>
            /\ pc[b] \in {"main_end", "done"} =>
                  dialogs[b] =
                     << [title |-> "Error",
                         body  |-> "Unable to locate a valid Java installation.\n\nPlease download a JVM from https://adoptopenjdk.net.",
                         icon  |-> "Error"] >>

C1_Witness ==
    \E b \in Builds :
        pc[b] = "done" /\ java_home[b].tag = "Err" /\ Len(dialogs[b]) = 1

\* C2: every spawn launch_jgnash issues, in either variant, passes exactly
\* three arguments in this order: "-classpath", the computed classpath,
\* "jGnash".
C2_SpawnHasExactlyThreeArgs ==
    \A b \in Builds : \A i \in 1..Len(spawns[b]) :
        /\ Len(spawns[b][i].args) = 3
        /\ spawns[b][i].args[1] = <<"-", "c", "l", "a", "s", "s", "p", "a", "t", "h">>
        /\ spawns[b][i].args[2] = class_path[b]
        /\ spawns[b][i].args[3] = <<"j", "G", "n", "a", "s", "h">>

C2_Witness ==
    /\ \A b \in Builds : Len(spawns[b]) = 1
    /\ locate_result = Ok(HomeCJdk)
    /\ current_exe = Ok(ExeCApp)

\* C3: the executable launch_jgnash targets is the located runtime home
\* followed verbatim by the variant's suffix ("\bin\javaw.exe" on windows,
\* "\bin\javaw" on unix), whatever the home ends in and whatever the
\* current-executable path is; /usr/lib/jvm/default on unix gives
\* /usr/lib/jvm/default\bin\javaw.
C3_ExecutableIsHomePlusSuffix ==
    \A b \in Builds :
        /\ pc[b] \notin {"main", "match"} /\ java_home[b].tag = "Ok" =>
              java_exe[b] = locate_result.val \o
                  (IF b = "windows" THEN WIN_JAVA_SUFFIX ELSE UNIX_JAVA_SUFFIX)
        /\ \A i \in 1..Len(spawns[b]) :
              /\ spawns[b][i].program = locate_result.val \o
                    (IF b = "windows" THEN WIN_JAVA_SUFFIX ELSE UNIX_JAVA_SUFFIX)
              /\ b = "unix" /\ locate_result.val = HomeUsrLibJvmDefault =>
                    spawns[b][i].program =
                       <<"/", "u", "s", "r", "/", "l", "i", "b", "/", "j", "v", "m", "/",
                         "d", "e", "f", "a", "u", "l", "t",
                         "\\", "b", "i", "n", "\\", "j", "a", "v", "a", "w">>
              /\ locate_result.val = HomeTrailingSep =>
                    Len(spawns[b][i].program) = 3 + (IF b = "windows" THEN 14 ELSE 10)

C3_Witness ==
    /\ Len(spawns["unix"]) = 1
    /\ locate_result = Ok(HomeUsrLibJvmDefault)
    /\ current_exe = Ok(ExeOptMyapp)

\* C4: when env::current_exe answers a path E, get_execution_path returns E
\* without its final path segment (/opt/app/launcher -> /opt/app,
\* /opt/myapp/bin/launcher -> /opt/myapp/bin), and the classpath argument of
\* the spawn is that directory followed verbatim by "\lib\*", whatever the
\* runtime home is.
C4_InstallDirIsExeWithoutLastSegment ==
    \A b \in Builds :
        current_exe.tag = "Ok" /\ PastClassPath(b) =>
            /\ IsLastSegmentRemoved(b, exec_path[b], current_exe.val)
            /\ current_exe.val = ExeOptApp =>
                  exec_path[b] = <<"/", "o", "p", "t", "/", "a", "p", "p">>
            /\ current_exe.val = ExeOptMyapp =>
                  exec_path[b] =
                     <<"/", "o", "p", "t", "/", "m", "y", "a", "p", "p", "/", "b", "i", "n">>
            /\ b = "windows" /\ current_exe.val = ExeCApp =>
                  exec_path[b] = <<"C", ":", "\\", "a", "p", "p">>
            /\ \A i \in 1..Len(spawns[b]) :
                  /\ spawns[b][i].args[2] = exec_path[b] \o <<"\\", "l", "i", "b", "\\", "*">>
                  /\ current_exe.val = ExeOptApp =>
                        spawns[b][i].args[2] =
                           <<"/", "o", "p", "t", "/", "a", "p", "p", "\\", "l", "i", "b", "\\", "*">>

C4_Witness ==
    /\ current_exe = Ok(ExeOptApp)
    /\ Len(spawns["unix"]) = 1
    /\ exec_path["unix"] = <<"/", "o", "p", "t", "/", "a", "p", "p">>

\* C5: when env::current_exe fails while the locator succeeded, the install
\* directory is the empty path, the launcher does not abort there, and it
\* goes on to issue the spawn with classpath exactly "\lib\*" and the
\* executable path unchanged.
C5_CurrentExeFailureFallsBackToEmptyPath ==
    \A b \in Builds :
        current_exe.tag = "Err" /\ PastClassPath(b) =>
            /\ exec_path[b] = <<>>
            /\ panic_msg[b] # UnwrapNoneMsg
            /\ pc[b] \in {"spawn", "expect", "main_end", "done", "panicked"}
            /\ class_path[b] = <<"\\", "l", "i", "b", "\\", "*">>
            /\ pc[b] # "spawn" => Len(spawns[b]) = 1
            /\ \A i \in 1..Len(spawns[b]) :
                  /\ spawns[b][i].args[2] = <<"\\", "l", "i", "b", "\\", "*">>
                  /\ spawns[b][i].program = locate_result.val \o
                        (IF b = "windows" THEN WIN_JAVA_SUFFIX ELSE UNIX_JAVA_SUFFIX)

C5_Witness ==
    /\ current_exe = Err
    /\ \E b \in Builds : Len(spawns[b]) = 1 /\ Terminated(b)

\* C6: when the locator succeeded and the OS refuses the spawn, the launcher
\* panics with "command failed to start": no dialog, no second spawn, no
\* second runtime lookup.  Whenever the locator succeeded, no dialog is ever
\* displayed.
C6_SpawnFailureIsFatalWithoutDialog ==
    \A b \in Builds :
        /\ java_home[b].tag = "Ok" => dialogs[b] = <<>>
        /\ spawn_result[b] = "Err" =>
              /\ pc[b] \in {"expect", "panicked"}
              /\ pc[b] = "panicked" => panic_msg[b] = "command failed to start"
              /\ Len(spawns[b]) = 1
              /\ Count(trace[b], "spawn") = 1
              /\ Count(trace[b], "locate_java_home") = 1
              /\ Count(trace[b], "msgbox::create") = 0
              /\ child[b] = "none"

C6_Witness ==
    \E b \in Builds :
        pc[b] = "panicked" /\ spawn_result[b] = "Err" /\ java_home[b].tag = "Ok"

\* C7: every execution that ends without a successful spawn ends either
\* through RuntimeNotFound (locator failed, dialog shown) or through
\* SpawnFailure (the spawn was issued and refused); once the locator has
\* succeeded the launcher always reaches the spawn call, for every install
\* directory get_execution_path returns.
C7_OnlyTwoErrorKinds ==
    \A b \in Builds :
        Terminated(b) /\ spawn_result[b] # "Ok" =>
            \/ java_home[b].tag = "Err" /\ Len(dialogs[b]) = 1
            \/ java_home[b].tag = "Ok" /\ Len(spawns[b]) = 1 /\ spawn_result[b] = "Err"

\* C8: every execution follows locate -> (branch) -> construct launch
\* arguments -> spawn -> exit: the locator is called exactly once and first,
\* the current-executable path is queried at most once and only after a
\* successful locate, the spawn is issued at most once (exactly once when the
\* locator succeeded and the arguments were constructed, never when the
\* locator failed), and nothing is repeated.
C8_StrictlySequentialSingleSpawn ==
    \A b \in Builds :
        /\ \/ IsPrefix(trace[b], <<"locate_java_home", "msgbox::create">>)
           \/ IsPrefix(trace[b], <<"locate_java_home", "launch_jgnash", "current_exe", "spawn">>)
        /\ pc[b] # "main" => Count(trace[b], "locate_java_home") = 1
        /\ Count(trace[b], "current_exe") <= 1
        /\ Count(trace[b], "current_exe") = 1 => java_home[b].tag = "Ok"
        /\ Len(spawns[b]) = Count(trace[b], "spawn")
        /\ Len(spawns[b]) <= 1
        /\ java_home[b].tag = "Err" => Len(spawns[b]) = 0
        /\ Terminated(b) /\ java_home[b].tag = "Ok" /\ panic_msg[b] # UnwrapNoneMsg =>
              Len(spawns[b]) = 1
        /\ Terminated(b) /\ java_home[b].tag = "Err" =>
              trace[b] = <<"locate_java_home", "msgbox::create">>

C8_Witness ==
    \E b \in Builds :
        /\ pc[b] = "done"
        /\ trace[b] = <<"locate_java_home", "launch_jgnash", "current_exe", "spawn">>

\* C9: after a successful spawn the launcher terminates without waiting for
\* or observing the child: it reaches its terminated state whether or not the
\* child ever exits, holds no handle to the child once the spawn statement is
\* over, and ends by returning from main whatever the child's exit status.
C9_LauncherEndsWithoutWaitingForChild ==
    /\ \A b \in Builds : (spawn_result[b] = "Ok") ~> (pc[b] = "done")
    /\ \A b \in Builds :
          [](spawn_result[b] = "Ok" =>
               /\ pc[b] \in {"expect", "main_end", "done"}
               /\ panic_msg[b] = ""
               /\ pc[b] # "expect" => ~child_handle[b])

C9_Witness ==
    \E b \in Builds : pc[b] = "done" /\ child[b] = "running" /\ spawn_result[b] = "Ok"

====
